---- MODULE Spec2Model ----
(***************************************************************************)
(* Model of standalone_app.py: a Streamlit retrieval-augmented question    *)
(* answering session.  The state is st.session_state plus the persisted    *)
(* Chroma collection under ./chroma_db.  Every action is one script run    *)
(* (one widget interaction) executed to completion.                        *)
(***************************************************************************)
EXTENDS Integers, Sequences, FiniteSets, TLC

VARIABLES
    api_key,      \* st.secrets has a non-empty PERPLEXITY_API_KEY
    embeddings,   \* st.session_state.embeddings
    llm,          \* st.session_state.llm
    ready,        \* initialize_components() returned True (script not stopped)
    documents,    \* st.session_state.documents
    vectorstore,  \* st.session_state.vectorstore
    retriever,    \* st.session_state.retriever
    rag_chain,    \* st.session_state.rag_chain
    messages,     \* st.session_state.messages
    chroma_dir,   \* os.path.exists("./chroma_db")
    index,        \* the chunks stored in the persisted collection, insertion order
    event         \* what the last script run did and showed (st.error/st.success, return values)

vars == <<api_key, embeddings, llm, ready, documents, vectorstore, retriever,
          rag_chain, messages, chroma_dir, index, event>>

None == "None"
Set == "set"

(***************************************************************************)
(* Bounds of the model.                                                    *)
(***************************************************************************)
MaxDocs == 2      \* ingests are offered while Len(documents) < MaxDocs
MaxMessages == 4  \* asks are offered while the history has room for a pair

(***************************************************************************)
(* Program constants.                                                      *)
(***************************************************************************)
chunk_size == 500
chunk_overlap == 50

NoDocumentsMsg == "No documents loaded. Please upload documents first."
ErrorMsg == "Error processing question"
ExceptionEscapes == "exception"

(***************************************************************************)
(* File names are sequences of characters, so that lower() and endswith()  *)
(* are computed rather than assumed.                                       *)
(***************************************************************************)
Lower(c) ==
    CASE c = "T" -> "t"
      [] c = "X" -> "x"
      [] c = "M" -> "m"
      [] c = "D" -> "d"
      [] c = "P" -> "p"
      [] c = "F" -> "f"
      [] OTHER -> c

lower(s) == [i \in DOMAIN s |-> Lower(s[i])]

endswith(s, suffix) ==
    /\ Len(s) >= Len(suffix)
    /\ SubSeq(s, Len(s) - Len(suffix) + 1, Len(s)) = suffix

(***************************************************************************)
(* Inputs.  An uploaded file has a name, a flag telling whether its bytes  *)
(* parse in the format its loader expects, and the lengths of its texts    *)
(* (pages of a PDF, paragraphs of a DOCX, the whole text otherwise).  A    *)
(* length of 0 stands for a text whose strip() is empty.                   *)
(***************************************************************************)
UploadedFiles ==
    { [name |-> <<"b", ".", "M", "D">>,      valid |-> TRUE,  texts |-> <<600>>],
      [name |-> <<"e", ".", "t", "x", "t">>, valid |-> TRUE,  texts |-> <<0>>],
      [name |-> <<"c", ".", "t", "x", "t">>, valid |-> FALSE, texts |-> <<300>>],
      [name |-> <<"d", ".", "x", "y", "z">>, valid |-> TRUE,  texts |-> <<300>>],
      [name |-> <<"p", ".", "P", "d", "f">>, valid |-> TRUE,  texts |-> <<0, 300>>],
      [name |-> <<"w", ".", "d", "o", "c", "x">>, valid |-> TRUE, texts |-> <<100, 199>>] }

WebPages ==
    { [url |-> <<"u">>, status_ok |-> TRUE,  text |-> 300],
      [url |-> <<"v">>, status_ok |-> FALSE, text |-> 300] }

Prompts == {"q"}

example_questions ==
    << "What is the main topic of the document?",
       "Can you summarize the key points?" >>

Responses == {"answer"}

(***************************************************************************)
(* Document loaders.  A Document is [source, page, len]; page 0 means the  *)
(* metadata has no page entry.                                             *)
(***************************************************************************)
Document(source, page, len) == [source |-> source, page |-> page, len |-> len]

RECURSIVE PdfPages(_, _, _)
PdfPages(texts, filename, page_num) ==
    IF page_num > Len(texts) THEN <<>>
    ELSE (IF texts[page_num] # 0
             THEN <<Document(filename, page_num, texts[page_num])>>
             ELSE <<>>) \o PdfPages(texts, filename, page_num + 1)

load_pdf(file) ==
    IF file.valid THEN PdfPages(file.texts, file.name, 1) ELSE <<>>

load_text(file) ==
    IF file.valid THEN <<Document(file.name, 0, file.texts[1])>> ELSE <<>>

RECURSIVE JoinLen(_)
JoinLen(texts) ==
    IF texts = <<>> THEN 0
    ELSE IF Len(texts) = 1 THEN texts[1]
    ELSE texts[1] + 1 + JoinLen(Tail(texts))

load_docx(file) ==
    IF file.valid THEN <<Document(file.name, 0, JoinLen(file.texts))>> ELSE <<>>

load_web_content(page) ==
    IF page.status_ok THEN <<Document(page.url, 0, page.text)>> ELSE <<>>

process_uploaded_file_else_as_text(file) ==
    IF endswith(lower(file.name), <<".", "p", "d", "f">>) THEN load_pdf(file)
    ELSE IF endswith(lower(file.name), <<".", "d", "o", "c", "x">>) THEN load_docx(file)
    ELSE load_text(file)

process_uploaded_file(file) ==
    IF endswith(lower(file.name), <<".", "p", "d", "f">>) THEN load_pdf(file)
    ELSE IF endswith(lower(file.name), <<".", "t", "x", "t">>) THEN load_text(file)
    ELSE IF endswith(lower(file.name), <<".", "d", "o", "c", "x">>) THEN load_docx(file)
    ELSE IF endswith(lower(file.name), <<".", "m", "d">>) THEN load_text(file)
    ELSE <<>>

\* the st.error shown by an upload that yields no documents
UploadError(file) ==
    IF process_uploaded_file(file) # <<>> THEN "none"
    ELSE IF \E ext \in { <<".", "p", "d", "f">>, <<".", "t", "x", "t">>,
                         <<".", "d", "o", "c", "x">>, <<".", "m", "d">> } :
                endswith(lower(file.name), ext)
         THEN (IF file.valid THEN "none" ELSE "load_error")
         ELSE "unsupported"

(***************************************************************************)
(* Chunker: RecursiveCharacterTextSplitter(chunk_size, chunk_overlap) on   *)
(* a text without separators: windows of chunk_size characters, each       *)
(* starting chunk_size - chunk_overlap after the previous one.  A chunk    *)
(* carries its parent's metadata and its window.                           *)
(***************************************************************************)
RECURSIVE split_text(_, _)
split_text(len, start) ==
    IF len = 0 THEN <<>>
    ELSE IF start + chunk_size >= len THEN << <<start, len>> >>
    ELSE << <<start, start + chunk_size>> >>
            \o split_text(len, start + chunk_size - chunk_overlap)

RECURSIVE split_documents(_)
split_documents(docs) ==
    IF docs = <<>> THEN <<>>
    ELSE LET d == Head(docs)
             w == split_text(d.len, 0)
         IN [i \in 1..Len(w) |->
                [source |-> d.source, page |-> d.page, from |-> w[i][1], to |-> w[i][2]]]
            \o split_documents(Tail(docs))

(***************************************************************************)
(* The record of a script run: the handler that ran (op), whether the run  *)
(* before it was a reset (after_reset), and what the run produced.  Fields *)
(* a run does not produce keep the values of NoEvent.                      *)
(***************************************************************************)
NoEvent ==
    [op |-> "start", after_reset |-> FALSE, name |-> <<>>, loaded |-> 0,
     chunks_added |-> -1, err |-> "none", question |-> "", answer |-> ""]

NewEvent(op) == [NoEvent EXCEPT !.op = op, !.after_reset = (event.op = "reset")]

Init ==
    /\ api_key \in BOOLEAN
    /\ embeddings = None
    /\ llm = None
    /\ ready = FALSE
    /\ documents = <<>>
    /\ vectorstore = None
    /\ retriever = None
    /\ rag_chain = None
    /\ messages = <<>>
    /\ chroma_dir = FALSE
    /\ index = <<>>
    /\ event = NoEvent

(***************************************************************************)
(* initialize_components: the new embeddings and llm, the value returned   *)
(* and the error shown.  emb_load and llm_ctor say whether loading the     *)
(* embedding model and constructing ChatPerplexity raise.                  *)
(***************************************************************************)
initialize_components_ignores_key(emb, model, key, emb_load, llm_ctor) ==
    IF emb = None /\ emb_load = "raise"
    THEN [embeddings |-> emb, llm |-> model, ret |-> FALSE, err |-> "init_exception"]
    ELSE IF model # None
    THEN [embeddings |-> Set, llm |-> model, ret |-> TRUE, err |-> "none"]
    ELSE IF ~key
    THEN [embeddings |-> Set, llm |-> None, ret |-> TRUE, err |-> "none"]
    ELSE IF llm_ctor = "raise"
    THEN [embeddings |-> Set, llm |-> None, ret |-> FALSE, err |-> "init_exception"]
    ELSE [embeddings |-> Set, llm |-> Set, ret |-> TRUE, err |-> "none"]

initialize_components(emb, model, key, emb_load, llm_ctor) ==
    IF emb = None /\ emb_load = "raise"
    THEN [embeddings |-> emb, llm |-> model, ret |-> FALSE, err |-> "init_exception"]
    ELSE IF model # None
    THEN [embeddings |-> Set, llm |-> model, ret |-> TRUE, err |-> "none"]
    ELSE IF ~key
    THEN [embeddings |-> Set, llm |-> None, ret |-> FALSE, err |-> "no_key"]
    ELSE IF llm_ctor = "raise"
    THEN [embeddings |-> Set, llm |-> None, ret |-> FALSE, err |-> "init_exception"]
    ELSE [embeddings |-> Set, llm |-> Set, ret |-> TRUE, err |-> "none"]

\* A script run while the components are not initialized yet: lines 292-294
\* stop the script when initialize_components returns False.
StartScript(emb_load, llm_ctor) ==
    /\ ~ready
    /\ LET r == initialize_components(embeddings, llm, api_key, emb_load, llm_ctor)
       IN /\ embeddings' = r.embeddings
          /\ llm' = r.llm
          /\ ready' = r.ret
          /\ event' = [NewEvent("init") EXCEPT !.err = r.err]
    /\ UNCHANGED <<api_key, documents, vectorstore, retriever, rag_chain,
                   messages, chroma_dir, index>>

(***************************************************************************)
(* create_vectorstore.  Chroma.from_documents opens the collection kept    *)
(* under persist_directory (creating the directory when it is missing),    *)
(* embeds the splits batch by batch and adds each batch to the collection; *)
(* it does not clear what the collection already holds.  Outcomes:         *)
(*   ok            every split is added;                                   *)
(*   client_error  opening the collection raises, nothing is touched;      *)
(*   add_error     embedding or adding a batch raises after `written`      *)
(*                 splits were added (the batch size depends on the build).*)
(***************************************************************************)
Outcomes(splits) ==
    { [kind |-> "ok", written |-> Len(splits)],
      [kind |-> "client_error", written |-> 0] }
    \cup { [kind |-> "add_error", written |-> k] :
             k \in 0..(IF Len(splits) = 0 THEN 0 ELSE Len(splits) - 1) }

create_vectorstore_returns(docs, outcome) ==
    IF docs = <<>> THEN None
    ELSE IF outcome.kind = "ok" THEN Len(split_documents(docs))
    ELSE 0

create_vectorstore(docs, outcome) ==
    IF docs = <<>>
    THEN UNCHANGED <<vectorstore, retriever, rag_chain, chroma_dir, index>>
    ELSE LET splits == split_documents(docs)
         IN IF outcome.kind = "ok"
            THEN /\ chroma_dir' = TRUE
                 /\ index' = index \o splits
                 /\ vectorstore' = Set
                 /\ retriever' = Set
                 /\ rag_chain' = Set
            ELSE /\ chroma_dir' = (chroma_dir \/ outcome.kind = "add_error")
                 /\ index' = index \o SubSeq(splits, 1, outcome.written)
                 /\ UNCHANGED <<vectorstore, retriever, rag_chain>>

\* lines 317-326 and 340-349: the body shared by the two ingest handlers
Ingest(op, name, docs, err, outcome) ==
    /\ IF docs # <<>>
       THEN /\ documents' = documents \o docs
            /\ create_vectorstore(documents \o docs, outcome)
            /\ LET chunks_added == create_vectorstore_returns(documents \o docs, outcome)
               IN event' = [NewEvent(op) EXCEPT !.name = name,
                               !.loaded = Len(docs), !.chunks_added = chunks_added,
                               !.err = IF outcome.kind # "ok" THEN "vectorstore_error"
                                       ELSE IF chunks_added > 0 THEN "none"
                                       ELSE "failed"]
       ELSE /\ UNCHANGED <<documents, vectorstore, retriever, rag_chain, chroma_dir, index>>
            /\ event' = [NewEvent(op) EXCEPT !.name = name, !.err = err]
    /\ UNCHANGED <<api_key, embeddings, llm, ready, messages>>

\* what the rebuild of an ingest can do; no rebuild runs when the loader yields nothing
IngestOutcomes(docs) ==
    IF docs = <<>> THEN {[kind |-> "ok", written |-> 0]}
    ELSE Outcomes(split_documents(documents \o docs))

UploadDocument(file) ==
    /\ ready
    /\ Len(documents) < MaxDocs
    /\ LET docs == process_uploaded_file(file)
       IN \E outcome \in IngestOutcomes(docs) :
            Ingest("upload", file.name, docs, UploadError(file), outcome)

ProcessWebLink(page) ==
    /\ ready
    /\ Len(documents) < MaxDocs
    /\ LET docs == load_web_content(page)
       IN \E outcome \in IngestOutcomes(docs) :
            Ingest("weblink", page.url, docs,
                   IF docs = <<>> THEN "load_error" ELSE "none", outcome)

(***************************************************************************)
(* ask_question: invoke is what rag_chain.invoke does, a response of the   *)
(* model or "raise".                                                       *)
(***************************************************************************)
Invocations == Responses \cup {"raise"}

ask_question_uncaught(chain, invoke) ==
    IF chain = None THEN NoDocumentsMsg
    ELSE IF invoke = "raise" THEN ExceptionEscapes
    ELSE invoke

ask_question(chain, invoke) ==
    IF chain = None THEN NoDocumentsMsg
    ELSE IF invoke = "raise" THEN ErrorMsg
    ELSE invoke

AskEvent(op, question, invoke) ==
    [NewEvent(op) EXCEPT !.question = question,
        !.err = IF rag_chain # None /\ invoke = "raise" THEN "invoke_error" ELSE "none",
        !.answer = ask_question(rag_chain, invoke)]

\* ask_question called through the functional interface, outside the chat widgets
AskQuestion(question, invoke) ==
    /\ ready
    /\ event' = AskEvent("ask", question, invoke)
    /\ UNCHANGED <<api_key, embeddings, llm, ready, documents, vectorstore,
                   retriever, rag_chain, messages, chroma_dir, index>>

ChatAppendUserOnly(question, invoke) ==
    messages' = Append(messages, [role |-> "user", content |-> question])

\* lines 411 and 418-422: the two appends of the chat handlers
ChatAppend(question, invoke) ==
    messages' = messages \o
        << [role |-> "user", content |-> question],
           [role |-> "assistant", content |-> ask_question(rag_chain, invoke)] >>

\* lines 409-422; the chat interface is rendered only when doc_count # 0
ChatInput(prompt, invoke) ==
    /\ ready
    /\ Len(documents) # 0
    /\ Len(messages) + 2 <= MaxMessages
    /\ ChatAppend(prompt, invoke)
    /\ event' = AskEvent("chat", prompt, invoke)
    /\ UNCHANGED <<api_key, embeddings, llm, ready, documents, vectorstore,
                   retriever, rag_chain, chroma_dir, index>>

\* lines 434-450
ExampleQuestion(i, invoke) ==
    /\ ready
    /\ Len(documents) # 0
    /\ Len(messages) + 2 <= MaxMessages
    /\ ChatAppend(example_questions[i], invoke)
    /\ event' = AskEvent("example", example_questions[i], invoke)
    /\ UNCHANGED <<api_key, embeddings, llm, ready, documents, vectorstore,
                   retriever, rag_chain, chroma_dir, index>>

(***************************************************************************)
(* reset_database                                                          *)
(***************************************************************************)
reset_database_keeps_directory ==
    /\ documents' = <<>>
    /\ vectorstore' = None
    /\ retriever' = None
    /\ rag_chain' = None
    /\ messages' = <<>>
    /\ UNCHANGED <<chroma_dir, index>>

reset_database ==
    /\ documents' = <<>>
    /\ vectorstore' = None
    /\ retriever' = None
    /\ rag_chain' = None
    /\ messages' = <<>>
    /\ chroma_dir' = FALSE
    /\ index' = <<>>

ResetDatabase ==
    /\ ready
    /\ reset_database
    /\ event' = NewEvent("reset")
    /\ UNCHANGED <<api_key, embeddings, llm, ready>>

Next ==
    \/ \E emb_load \in {"ok", "raise"}, llm_ctor \in {"ok", "raise"} :
          StartScript(emb_load, llm_ctor)
    \/ \E file \in UploadedFiles : UploadDocument(file)
    \/ \E page \in WebPages : ProcessWebLink(page)
    \/ \E question \in Prompts, invoke \in Invocations : AskQuestion(question, invoke)
    \/ \E prompt \in Prompts, invoke \in Invocations : ChatInput(prompt, invoke)
    \/ \E i \in DOMAIN example_questions, invoke \in Invocations : ExampleQuestion(i, invoke)
    \/ ResetDatabase

Spec == Init /\ [][Next]_vars

(***************************************************************************)
(* Vocabulary of the properties.                                           *)
(***************************************************************************)
IngestOps == {"upload", "weblink"}
AskOps == {"ask", "chat", "example"}

Count(seq, x) == Cardinality({i \in DOMAIN seq : seq[i] = x})

Elements(seq) == {seq[i] : i \in DOMAIN seq}

SameChunks(s, t) ==
    \A x \in Elements(s) \cup Elements(t) : Count(s, x) = Count(t, x)

CountSource(seq, source) == Cardinality({i \in DOMAIN seq : seq[i].source = source})

SupportedExtensions ==
    { <<".", "p", "d", "f">>, <<".", "t", "x", "t">>,
      <<".", "d", "o", "c", "x">>, <<".", "m", "d">> }

Supported(name) == \E ext \in SupportedExtensions : endswith(lower(name), ext)

Untouched ==
    /\ documents = <<>>
    /\ messages = <<>>
    /\ index = <<>>
    /\ ~chroma_dir
    /\ vectorstore = None
    /\ retriever = None
    /\ rag_chain = None

Alternates(msgs) ==
    /\ Len(msgs) % 2 = 0
    /\ \A i \in DOMAIN msgs :
          msgs[i].role = IF i % 2 = 1 THEN "user" ELSE "assistant"

(***************************************************************************)
(* C1: after any sequence of ingests and resets the persisted index holds  *)
(* exactly the chunks the splitter produces for the current document list, *)
(* each as many times as the splitter emits it.                            *)
(***************************************************************************)
C1_IndexReflectsDocuments ==
    SameChunks(index, split_documents(documents))

(***************************************************************************)
(* C2: a reset leaves no ./chroma_db directory, and an ask_question that   *)
(* runs right after a reset returns the fixed "No documents loaded"        *)
(* message.                                                                *)
(***************************************************************************)
C2_ResetThenAsk ==
    /\ event.op = "reset" => ~chroma_dir
    /\ (event.op \in AskOps /\ event.after_reset) =>
          /\ event.answer = NoDocumentsMsg
          /\ ~chroma_dir

C2_Witness ==
    /\ event.op = "ask"
    /\ event.after_reset
    /\ event.answer = NoDocumentsMsg
    /\ ~chroma_dir

(***************************************************************************)
(* C3: ask_question answers with the fixed "No documents loaded" message   *)
(* exactly when document_list is empty.                                    *)
(***************************************************************************)
C3_AskDecidedByDocuments ==
    event.op \in AskOps =>
        (event.answer = NoDocumentsMsg <=> documents = <<>>)

(***************************************************************************)
(* C4: an ingest whose rebuild raises leaves the persisted index content   *)
(* and the vectorstore, retriever and rag_chain handles as they were.      *)
(***************************************************************************)
C4_FailedRebuildLeavesIndex ==
    [][ (event'.op \in IngestOps /\ event'.err = "vectorstore_error") =>
            UNCHANGED <<index, vectorstore, retriever, rag_chain>> ]_vars

(***************************************************************************)
(* C5: document_list changes only by appending the loaded documents on an  *)
(* ingest that succeeds (a positive chunk count) or by being cleared on    *)
(* reset; an ingest that does not succeed leaves it as it was.             *)
(***************************************************************************)
C5_DocumentsChangeOnlyOnSuccess ==
    [][ \/ documents' = documents
        \/ /\ event'.op \in IngestOps
           /\ event'.chunks_added > 0
           /\ Len(documents') = Len(documents) + event'.loaded
           /\ SubSeq(documents', 1, Len(documents)) = documents
        \/ /\ event'.op = "reset"
           /\ documents' = <<>> ]_vars

(***************************************************************************)
(* C6: an upload whose extension is none of .pdf, .txt, .docx, .md (case   *)
(* ignored) shows the unsupported-type error and yields no documents; any  *)
(* ingest that yields no documents leaves the documents, the index, the    *)
(* handles and the message history unchanged.                              *)
(***************************************************************************)
C6_NoDocumentsNoChange ==
    [][ event'.op \in IngestOps =>
          /\ (event'.op = "upload" /\ ~Supported(event'.name)) =>
                (event'.err = "unsupported" /\ event'.loaded = 0)
          /\ event'.loaded = 0 =>
                UNCHANGED <<documents, index, chroma_dir, vectorstore,
                            retriever, rag_chain, messages>> ]_vars

C6_Witness ==
    /\ event.op = "upload"
    /\ ~Supported(event.name)
    /\ event.err = "unsupported"
    /\ documents # <<>>
    /\ index # <<>>

(***************************************************************************)
(* C7: when a document is ingested successfully and then ingested          *)
(* successfully again, the second ingest returns twice the chunk count of  *)
(* the first, document_list holds the document twice, and the index holds  *)
(* twice the chunks the splitter produces for one copy of that source.     *)
(***************************************************************************)
C7_TwiceTheChunks ==
    [][ ( /\ event.op \in IngestOps
          /\ event.chunks_added > 0
          /\ Len(documents) = 1
          /\ event'.op \in IngestOps
          /\ event'.chunks_added > 0
          /\ event'.name = event.name ) =>
            /\ documents' = documents \o documents
            /\ event'.chunks_added = 2 * event.chunks_added
            /\ CountSource(index', documents[1].source)
                  = 2 * Len(split_documents(documents)) ]_vars

(***************************************************************************)
(* C8: no exception escapes ask_question; when the chain's invoke raises,  *)
(* the answer is the error string and the documents, the index and the     *)
(* handles are the same as before the ask.                                 *)
(***************************************************************************)
C8_AskFailureIsAnAnswer ==
    [][ event'.op \in AskOps =>
          /\ event'.answer # ExceptionEscapes
          /\ event'.err = "invoke_error" =>
                /\ event'.answer = ErrorMsg
                /\ UNCHANGED <<documents, vectorstore, retriever, rag_chain,
                               chroma_dir, index>> ]_vars

C8_Witness ==
    /\ event.op = "chat"
    /\ event.err = "invoke_error"
    /\ event.answer = ErrorMsg
    /\ rag_chain = Set

(***************************************************************************)
(* C9 as stated: with the credential absent the script never gets past     *)
(* initialization and nothing is modified while llm is unset, and a        *)
(* missing credential is the only thing that stops the script.             *)
(***************************************************************************)
C9_OnlyMissingKeyHalts ==
    /\ ~api_key => (llm = None /\ ~ready)
    /\ llm = None => (~ready /\ Untouched)
    /\ (event.op = "init" /\ ~ready) => ~api_key

(***************************************************************************)
(* C9 as amended: with the credential absent the script never gets past    *)
(* initialization and nothing is modified while llm is unset; the script   *)
(* is stopped when the credential is missing or when loading the           *)
(* embedding model or constructing the language model raises.              *)
(***************************************************************************)
C9_InitFailureHalts ==
    /\ ~api_key => (llm = None /\ ~ready)
    /\ llm = None => (~ready /\ Untouched)
    /\ (event.op = "init" /\ ~ready) =>
          /\ event.err \in {"no_key", "init_exception"}
          /\ event.err = "no_key" => (~api_key /\ embeddings = Set)
          /\ Untouched

C9_Witness ==
    /\ ~api_key
    /\ event.op = "init"
    /\ event.err = "no_key"
    /\ ~ready
    /\ llm = None

(***************************************************************************)
(* C10: the message history always has even length and alternates user,    *)
(* assistant; a chat input or example question appends the question as a   *)
(* user message and the value ask_question returned as an assistant        *)
(* message, an ingest leaves the history unchanged, a reset empties it.    *)
(***************************************************************************)
C10_HistoryAlternates ==
    /\ [](Alternates(messages))
    /\ [][ /\ event'.op \in {"chat", "example"} =>
                messages' = messages \o
                    << [role |-> "user", content |-> event'.question],
                       [role |-> "assistant", content |-> event'.answer] >>
           /\ event'.op \in IngestOps \cup {"ask", "init"} => messages' = messages
           /\ event'.op = "reset" => messages' = <<>> ]_vars

C10_Witness ==
    /\ Len(messages) = 4
    /\ event.op = "example"
    /\ messages[4].content = event.answer
    /\ messages[2].content # messages[4].content

====
